---------------------------- MODULE Spec2Model ----------------------------
(***************************************************************************)
(* Model of backend/main.py: the GamePathAI stub API.  One FastAPI         *)
(* application, ten GET routes returning literals, a CORS middleware, an   *)
(* "http" middleware that stamps six headers on the response it gets from  *)
(* call_next, and an exception handler registered for Exception.           *)
(*                                                                         *)
(* A path is the decoded path of the ASGI scope, written as a sequence of  *)
(* atoms: "/" , whole words ("health", "api", ...) and LF, the line feed   *)
(* character (%0A on the wire).  Header names are written in lower case,   *)
(* as the ASGI layer stores them.  A JSON body is the text the response    *)
(* carries.                                                                *)
(***************************************************************************)
EXTENDS Integers, Sequences, FiniteSets, TLC

VARIABLES
    environ,       \* os.environ: the process environment, variable -> value
    environ0,      \* history: os.environ as it was when the module was loaded
    ENVIRONMENT,   \* module global, line 13
    JWT_SECRET,    \* module global, line 14
    API_KEYS,      \* module global, line 15: the list of keys
    pc,            \* "idle" | "done": no request in hand / a response was sent
    request,       \* the request being answered (NoRequest when idle)
    response,      \* the response sent for it (NoResponse when idle)
    fault,         \* the exception the route handler raised for it (NoExc: none)
    peer           \* a second process of the same program (NoPeer when there is none)

vars == <<environ, environ0, ENVIRONMENT, JWT_SECRET, API_KEYS, pc, request, response, fault, peer>>

----------------------------------------------------------------------------
(* Bounds of the model. *)

\* Longest tail of "/" and line-feed characters appended to a base path.
MaxSuffix == 2

----------------------------------------------------------------------------
(* Small helpers. *)

None == "<unset>"
LF == "%0A"

EmptyHeaders == [n \in {} |-> ""]

RECURSIVE Join(_)
Join(s) == IF s = <<>> THEN "" ELSE Head(s) \o Join(Tail(s))

IsPrefix(p, s) == Len(p) <= Len(s) /\ SubSeq(s, 1, Len(p)) = p

\* str.rstrip("/")
RECURSIVE RStripSlash(_)
RStripSlash(s) ==
    IF s # <<>> /\ s[Len(s)] = "/" THEN RStripSlash(SubSeq(s, 1, Len(s) - 1)) ELSE s

\* os.getenv(name, default) on a given environment
GetEnv(env, name, default) == IF env[name] = None THEN default ELSE env[name]

----------------------------------------------------------------------------
(* Outcomes of a layer of the ASGI stack: a response, or an exception      *)
(* propagating to the layer above.                                         *)

NoExc == [class |-> "none", args |-> <<>>, status_code |-> 0, detail |-> "", headers |-> EmptyHeaders]
PlainException(args) ==
    [class |-> "Exception", args |-> args, status_code |-> 0, detail |-> "", headers |-> EmptyHeaders]
HTTPException(code, detail, hdrs) ==
    [class |-> "HTTPException", args |-> <<>>, status_code |-> code, detail |-> detail, headers |-> hdrs]

Respond(status, hdrs, body) ==
    [kind |-> "response", status |-> status, headers |-> hdrs, body |-> body, exc |-> NoExc]
Raise(e) ==
    [kind |-> "raise", status |-> 0, headers |-> EmptyHeaders, body |-> "", exc |-> e]

\* str(exc) of an exception built from positional arguments
StrExc(e) == IF e.args = <<>> THEN "" ELSE e.args[1]

JSONResponse(status, hdrs, body) ==
    Respond(status, ("content-type" :> "application/json") @@ hdrs, body)
PlainTextResponse(status, hdrs, body) ==
    Respond(status, ("content-type" :> "text/plain; charset=utf-8") @@ hdrs, body)
HTMLResponse(status, body) ==
    Respond(status, "content-type" :> "text/html; charset=utf-8", body)

----------------------------------------------------------------------------
(* Configuration, lines 10-15. *)

EnvVars == {"ENVIRONMENT", "JWT_SECRET", "API_KEYS"}

\* Values the process environment (after load_dotenv) may give each variable.
EnvValues(name) ==
    CASE name = "ENVIRONMENT" -> {None, "production"}
      [] name = "JWT_SECRET"  -> {None, "s3cret"}
      [] name = "API_KEYS"    -> {None, "k1,k2"}

Environs == {e \in [EnvVars -> {None, "production", "s3cret", "k1,k2"}] :
                \A n \in EnvVars : e[n] \in EnvValues(n)}

\* str.split(",") of the texts API_KEYS takes here
SplitComma(text) == IF text = "k1,k2" THEN <<"k1", "k2">> ELSE <<text>>

\* line 13
LoadEnvironment(env) == GetEnv(env, "ENVIRONMENT", "development")
\* line 14
LoadJwtSecret(env) == GetEnv(env, "JWT_SECRET", "dev-secret-key-for-gamepathai")
\* line 15
LoadApiKeys(env) == SplitComma(GetEnv(env, "API_KEYS", "dev-api-key"))

\* The module globals a process holds.
Config(E, S, K) == [ENVIRONMENT |-> E, JWT_SECRET |-> S, API_KEYS |-> K]

----------------------------------------------------------------------------
(* Requests. *)

Methods == {"GET", "HEAD", "POST", "DELETE", "OPTIONS"}

Origin == "https://app.example"

Client(query, headers) == [query |-> query, headers |-> headers]

\* What a client sends besides method and path: nothing; a simple cross-origin
\* request, without and with a cookie; CORS preflights asking for a standard
\* and for a non-standard method; an API key in the query string and a header.
Clients ==
    { Client("", EmptyHeaders),
      Client("", "origin" :> Origin),
      Client("", ("origin" :> Origin) @@ ("cookie" :> "sid=1")),
      Client("", ("origin" :> Origin) @@ ("access-control-request-method" :> "GET")),
      Client("", ("origin" :> Origin) @@ ("access-control-request-method" :> "PROPFIND")
                 @@ ("access-control-request-headers" :> "x-api-key")),
      Client("api_key=dev-api-key", "x-api-key" :> "dev-api-key") }

BasePaths ==
    { <<"/">>,
      <<"/", "health">>,
      <<"/", "api", "/", "health">>,
      <<"/", "games">>,
      <<"/", "api", "/", "games">>,
      <<"/", "ml", "/", "game-detection">>,
      <<"/", "api", "/", "metrics", "/", "ping">>,
      <<"/", "api", "/", "metrics", "/", "jitter">>,
      <<"/", "api", "/", "metrics", "/", "system">>,
      <<"/", "docs">>,
      <<"/", "x", "/", "y", "/", "z">> }

RECURSIVE SeqsUpTo(_, _)
SeqsUpTo(S, n) ==
    IF n = 0 THEN {<<>>}
    ELSE LET shorter == SeqsUpTo(S, n - 1)
         IN  shorter \cup {Append(s, a) : s \in shorter, a \in S}

Paths == {b \o t : b \in BasePaths, t \in SeqsUpTo({"/", LF}, MaxSuffix)}

Requests ==
    {[method |-> m, path |-> p, query |-> c.query, headers |-> c.headers] :
        m \in Methods, p \in Paths, c \in Clients}

NoRequest == [method |-> "", path |-> <<>>, query |-> "", headers |-> EmptyHeaders]
NoResponse == [status |-> 0, headers |-> EmptyHeaders, body |-> ""]
NoPeer == [config |-> Config("", "", <<>>), request |-> NoRequest, response |-> NoResponse]

----------------------------------------------------------------------------
(* Route handlers, lines 35-77 and 100-105: the JSON text each returns. *)

\* A variant of health that reads the process environment at each request.
health_getenv(cfg) ==
    "{\"status\":\"healthy\",\"version\":\"1.0.0\",\"environment\":\""
        \o GetEnv(environ, "ENVIRONMENT", "development") \o "\"}"

health(cfg) ==
    "{\"status\":\"healthy\",\"version\":\"1.0.0\",\"environment\":\""
        \o cfg.ENVIRONMENT \o "\"}"

api_health(cfg) ==
    "{\"status\":\"healthy\",\"version\":\"1.0.0\",\"environment\":\""
        \o cfg.ENVIRONMENT \o "\"}"

games ==
    "[{\"id\":\"valorant\",\"name\":\"Valorant\",\"isOptimized\":false},"
    \o "{\"id\":\"csgo\",\"name\":\"Counter-Strike 2\",\"isOptimized\":true},"
    \o "{\"id\":\"fortnite\",\"name\":\"Fortnite\",\"isOptimized\":false}]"

ml_game_detection ==
    "[{\"id\":\"valorant\",\"name\":\"Valorant\",\"isDetected\":true},"
    \o "{\"id\":\"csgo\",\"name\":\"Counter-Strike 2\",\"isDetected\":true}]"

metrics_ping == "{\"value\":35,\"unit\":\"ms\",\"timestamp\":\"2025-05-05T12:00:00Z\"}"

metrics_jitter == "{\"value\":5,\"unit\":\"ms\",\"timestamp\":\"2025-05-05T12:00:00Z\"}"

metrics_system ==
    "{\"cpu\":45,\"memory\":60,\"gpu\":50,\"timestamp\":\"2025-05-05T12:00:00Z\"}"

catch_all == "{\"message\":\"Esta rota deve ser servida pelo frontend\"}"

\* The value a handler of main.py returns.
HandlerBody(name, cfg) ==
    CASE name = "health"            -> health(cfg)
      [] name = "api_health"        -> api_health(cfg)
      [] name = "games"             -> games
      [] name = "ml_game_detection" -> ml_game_detection
      [] name = "metrics_ping"      -> metrics_ping
      [] name = "metrics_jitter"    -> metrics_jitter
      [] name = "metrics_system"    -> metrics_system
      [] name = "catch_all"         -> catch_all

\* The pages FastAPI(...) of lines 18-22 serves by default.
DocsEndpoints == {"openapi", "swagger_ui_html", "swagger_ui_redirect", "redoc_html"}

----------------------------------------------------------------------------
(* The route table, in the order the routes are registered.  FastAPI(...)  *)
(* registers its documentation routes first; stacked decorators apply      *)
(* bottom-up, so /games precedes /api/games and the wildcard precedes "/". *)

Route(path, param, methods, endpoint) ==
    [path |-> path, param |-> param, methods |-> methods, endpoint |-> endpoint]

DocsRoutes ==
    << Route(<<"/", "openapi.json">>, FALSE, {"GET", "HEAD"}, "openapi"),
       Route(<<"/", "docs">>, FALSE, {"GET", "HEAD"}, "swagger_ui_html"),
       Route(<<"/", "docs", "/", "oauth2-redirect">>, FALSE, {"GET", "HEAD"}, "swagger_ui_redirect"),
       Route(<<"/", "redoc">>, FALSE, {"GET", "HEAD"}, "redoc_html") >>

SpecificRoutes ==
    << Route(<<"/", "health">>, FALSE, {"GET"}, "health"),
       Route(<<"/", "api", "/", "health">>, FALSE, {"GET"}, "api_health"),
       Route(<<"/", "games">>, FALSE, {"GET"}, "games"),
       Route(<<"/", "api", "/", "games">>, FALSE, {"GET"}, "games"),
       Route(<<"/", "ml", "/", "game-detection">>, FALSE, {"GET"}, "ml_game_detection"),
       Route(<<"/", "api", "/", "metrics", "/", "ping">>, FALSE, {"GET"}, "metrics_ping"),
       Route(<<"/", "api", "/", "metrics", "/", "jitter">>, FALSE, {"GET"}, "metrics_jitter"),
       Route(<<"/", "api", "/", "metrics", "/", "system">>, FALSE, {"GET"}, "metrics_system") >>

CatchAllRoutes ==
    << Route(<<"/">>, TRUE, {"GET"}, "catch_all"),
       Route(<<"/">>, FALSE, {"GET"}, "catch_all") >>

\* A variant of the table with the wildcard registered before the specific routes.
RoutesCatchAllFirst == DocsRoutes \o CatchAllRoutes \o SpecificRoutes
Routes == DocsRoutes \o SpecificRoutes \o CatchAllRoutes

----------------------------------------------------------------------------
(* Routing.  A route's path compiles to the regular expression "^...$",    *)
(* matched with re.match: "$" also matches just before a final line feed,  *)
(* and the ".*" of the {rest_of_path:path} parameter matches no line feed. *)

PathMatches(route, path) ==
    IF route.param
    THEN /\ IsPrefix(route.path, path)
         /\ LET rest == SubSeq(path, Len(route.path) + 1, Len(path))
            IN  \A i \in 1..Len(rest) : rest[i] = LF => i = Len(rest)
    ELSE path = route.path \/ path = route.path \o <<LF>>

\* Route.matches: "FULL", "PARTIAL" (the path matches, the method does not) or "NONE"
Matches(route, method, path) ==
    IF ~PathMatches(route, path) THEN "NONE"
    ELSE IF method \notin route.methods THEN "PARTIAL"
    ELSE "FULL"

Min(S) == CHOOSE i \in S : \A j \in S : i <= j

\* ", ".join(route.methods); the order of the names is that of a Python set and
\* carries no meaning, they are written here in alphabetical order.
AllowHeader(route) == IF "HEAD" \in route.methods THEN "GET, HEAD" ELSE "GET"

\* Calling the endpoint of a fully matched route.  exc is the exception the
\* handler raises while producing its value (NoExc: it returns).
CallEndpoint(route, cfg, exc) ==
    IF route.endpoint \in DocsEndpoints
    THEN IF route.endpoint = "openapi"
         THEN JSONResponse(200, EmptyHeaders, "<the OpenAPI schema of the application>")
         ELSE HTMLResponse(200, "<the page of " \o route.endpoint \o ">")
    ELSE IF exc # NoExc THEN Raise(exc)
    ELSE JSONResponse(200, EmptyHeaders, HandlerBody(route.endpoint, cfg))

\* A variant of Route.handle that serves every method.
RouteHandleAnyMethod(route, req, cfg, exc) == CallEndpoint(route, cfg, exc)

\* A variant of Route.handle that admits only requests carrying one of API_KEYS.
RouteHandleChecksKey(route, req, cfg, exc) ==
    IF req.method \notin route.methods
    THEN Raise(HTTPException(405, "Method Not Allowed", "allow" :> AllowHeader(route)))
    ELSE IF ~(/\ "x-api-key" \in DOMAIN req.headers
              /\ \E i \in DOMAIN cfg.API_KEYS : cfg.API_KEYS[i] = req.headers["x-api-key"])
    THEN Raise(HTTPException(401, "Unauthorized", EmptyHeaders))
    ELSE CallEndpoint(route, cfg, exc)

\* Route.handle
RouteHandle(route, req, cfg, exc) ==
    IF req.method \notin route.methods
    THEN Raise(HTTPException(405, "Method Not Allowed", "allow" :> AllowHeader(route)))
    ELSE CallEndpoint(route, cfg, exc)

\* The URL a trailing-slash redirect points to (scheme and authority, copied
\* from the request, are left out).
RedirectURL(path, query) == Join(path) \o (IF query = "" THEN "" ELSE "?" \o query)

\* Router.app: the first full match, else the first partial match, else the
\* trailing-slash redirect, else not found.
Router(req, cfg, exc) ==
    LET routes  == Routes
        full    == {i \in DOMAIN routes : Matches(routes[i], req.method, req.path) = "FULL"}
        partial == {i \in DOMAIN routes : Matches(routes[i], req.method, req.path) = "PARTIAL"}
        other   == IF req.path[Len(req.path)] = "/"
                   THEN RStripSlash(req.path)
                   ELSE Append(req.path, "/")
    IN  IF full # {} THEN RouteHandle(routes[Min(full)], req, cfg, exc)
        ELSE IF partial # {} THEN RouteHandle(routes[Min(partial)], req, cfg, exc)
        ELSE IF /\ req.path # <<"/">>
                /\ \E i \in DOMAIN routes : Matches(routes[i], req.method, other) # "NONE"
        THEN Respond(307, "location" :> RedirectURL(other, req.query), "")
        ELSE Raise(HTTPException(404, "Not Found", EmptyHeaders))

\* FastAPI's handler for HTTPException, applied to what the router gives; any
\* other exception goes on to the layer above.
http_exception_handler(out) ==
    IF out.kind = "raise" /\ out.exc.class = "HTTPException"
    THEN JSONResponse(out.exc.status_code, out.exc.headers,
                      "{\"detail\":\"" \o out.exc.detail \o "\"}")
    ELSE out

\* ExceptionMiddleware around the router
ExceptionMiddleware(req, cfg, exc) == http_exception_handler(Router(req, cfg, exc))

----------------------------------------------------------------------------
(* CORSMiddleware as configured at lines 25-32: allow_origins=["*"],       *)
(* allow_credentials=True, allow_methods=["*"], allow_headers=["*"],       *)
(* expose_headers of three names.                                          *)

ALL_METHODS == {"DELETE", "GET", "HEAD", "OPTIONS", "PATCH", "POST", "PUT"}

ExposeHeaders == "X-Original-Location, X-Redirect-Blocked, X-Request-Path"

Has(hdrs, name) == name \in DOMAIN hdrs

SimpleHeaders(req) ==
    ("access-control-allow-origin" :>
        (IF Has(req.headers, "cookie") THEN req.headers["origin"] ELSE "*"))
    @@ ("access-control-allow-credentials" :> "true")
    @@ ("access-control-expose-headers" :> ExposeHeaders)
    @@ (IF Has(req.headers, "cookie") THEN "vary" :> "Origin" ELSE EmptyHeaders)

PreflightResponse(req) ==
    LET hdrs == ("vary" :> "Origin")
                @@ ("access-control-allow-methods" :> "DELETE, GET, HEAD, OPTIONS, PATCH, POST, PUT")
                @@ ("access-control-max-age" :> "600")
                @@ ("access-control-allow-credentials" :> "true")
                @@ ("access-control-allow-origin" :> req.headers["origin"])
                @@ (IF Has(req.headers, "access-control-request-headers")
                    THEN "access-control-allow-headers"
                             :> req.headers["access-control-request-headers"]
                    ELSE EmptyHeaders)
    IN  IF req.headers["access-control-request-method"] \notin ALL_METHODS
        THEN PlainTextResponse(400, hdrs, "Disallowed CORS method")
        ELSE PlainTextResponse(200, hdrs, "OK")

IsPreflight(req) ==
    /\ Has(req.headers, "origin")
    /\ req.method = "OPTIONS"
    /\ Has(req.headers, "access-control-request-method")

\* simple_response: the CORS headers are added when the inner response starts
SimpleResponse(req, out) ==
    IF out.kind = "raise" THEN out
    ELSE [out EXCEPT !.headers = SimpleHeaders(req) @@ out.headers]

CORSMiddleware(req, cfg, exc) ==
    IF ~Has(req.headers, "origin") THEN ExceptionMiddleware(req, cfg, exc)
    ELSE IF IsPreflight(req) THEN PreflightResponse(req)
    ELSE SimpleResponse(req, ExceptionMiddleware(req, cfg, exc))

----------------------------------------------------------------------------
(* anti_redirect_middleware, lines 80-89: the six headers are set on the   *)
(* response call_next returns; an exception out of call_next leaves the    *)
(* function at line 82.                                                    *)

AntiRedirectHeaders ==
    ("x-no-redirect" :> "1")
    @@ ("cache-control" :> "no-cache, no-store, must-revalidate")
    @@ ("pragma" :> "no-cache")
    @@ ("expires" :> "0")
    @@ ("x-content-type-options" :> "nosniff")
    @@ ("x-frame-options" :> "DENY")

\* lines 83-89, reached when line 82 returns a response
SetAntiRedirectHeaders(out) ==
    IF out.kind = "raise" THEN out
    ELSE [out EXCEPT !.headers = AntiRedirectHeaders @@ out.headers]

anti_redirect_middleware(req, cfg, exc) ==
    SetAntiRedirectHeaders(CORSMiddleware(req, cfg, exc))

\* A variant of the handler that answers with the exception text alone.
global_exception_handler_bare(req, e) ==
    JSONResponse(500, EmptyHeaders, "{\"message\":\"" \o StrExc(e) \o "\"}")

\* lines 92-97
global_exception_handler(req, e) ==
    JSONResponse(500, EmptyHeaders, "{\"message\":\"Erro interno: " \o StrExc(e) \o "\"}")

\* What goes on the wire for an outcome of the outermost layer.
Sent(out) == [status |-> out.status, headers |-> out.headers, body |-> out.body]

\* ServerErrorMiddleware: an exception that reaches it is answered by the
\* handler registered for Exception.
ServerErrorMiddleware(req, out) ==
    IF out.kind = "raise" THEN global_exception_handler(req, out.exc) ELSE out

\* The application: a handler registered for Exception runs in the outermost
\* layer (ServerErrorMiddleware), above the middleware added at lines 25 and 80;
\* the middleware added last is the outer of the two.
App(req, cfg, exc) ==
    Sent(ServerErrorMiddleware(req, anti_redirect_middleware(req, cfg, exc)))

----------------------------------------------------------------------------
(* The state machine. *)

Globals == Config(ENVIRONMENT, JWT_SECRET, API_KEYS)

\* Module load, lines 10-15, in a process whose environment is env.
Load(env) ==
    /\ environ = env
    /\ environ0 = env
    /\ ENVIRONMENT = LoadEnvironment(env)
    /\ JWT_SECRET = LoadJwtSecret(env)
    /\ API_KEYS = LoadApiKeys(env)
    /\ pc = "idle"
    /\ request = NoRequest
    /\ response = NoResponse
    /\ fault = NoExc

Init == (\E env \in Environs : Load(env)) /\ peer = NoPeer

\* Something sets or unsets ENVIRONMENT in the process environment after startup.
SetEnv ==
    /\ \E v \in EnvValues("ENVIRONMENT") \ {environ["ENVIRONMENT"]} :
          environ' = [environ EXCEPT !["ENVIRONMENT"] = v]
    /\ UNCHANGED <<environ0, ENVIRONMENT, JWT_SECRET, API_KEYS, pc, request, response,
                   fault, peer>>

\* The request reaches a handler of main.py.
HandlerCalled(req) ==
    LET full == {i \in DOMAIN Routes : Matches(Routes[i], req.method, req.path) = "FULL"}
    IN  /\ ~IsPreflight(req)
        /\ full # {}
        /\ Routes[Min(full)].endpoint \notin DocsEndpoints

\* One request is answered; its handler, if one is called, raises exc.
Serve(req, exc) ==
    /\ pc = "idle"
    /\ pc' = "done"
    /\ request' = req
    /\ fault' = exc
    /\ response' = App(req, Globals, exc)
    /\ UNCHANGED <<environ, environ0, ENVIRONMENT, JWT_SECRET, API_KEYS, peer>>

\* A request whose handler returns, as every handler of main.py does.
Request == \E req \in Requests : Serve(req, NoExc)

\* Exceptions a handler could raise: plain ones, without and with a message,
\* and an HTTPException.
Exceptions ==
    { PlainException(<<>>), PlainException(<<"boom">>),
      HTTPException(403, "Forbidden", EmptyHeaders) }

\* A request whose handler raises.
RequestRaising ==
    /\ pc = "idle"
    /\ \E req \in {r \in Requests : HandlerCalled(r)} : \E exc \in Exceptions : Serve(req, exc)

\* The exchange is over; the process waits for the next request.
Complete ==
    /\ pc = "done"
    /\ pc' = "idle"
    /\ request' = NoRequest
    /\ response' = NoResponse
    /\ fault' = NoExc
    /\ peer' = IF peer = NoPeer THEN peer
               ELSE [peer EXCEPT !.request = NoRequest, !.response = NoResponse]
    /\ UNCHANGED <<environ, environ0, ENVIRONMENT, JWT_SECRET, API_KEYS>>

Next == Request \/ SetEnv \/ Complete

Spec == Init /\ [][Next]_vars

\* The program with handlers that may raise.
NextRaising == Request \/ RequestRaising \/ SetEnv \/ Complete

SpecRaising == Init /\ [][NextRaising]_vars

----------------------------------------------------------------------------
(* Two processes of the program side by side.                              *)

\* This process answers req while the peer answers peerReq.
ServeBoth(req, peerReq) ==
    /\ pc = "idle"
    /\ pc' = "done"
    /\ request' = req
    /\ fault' = NoExc
    /\ response' = App(req, Globals, NoExc)
    /\ peer' = [peer EXCEPT !.request = peerReq,
                            !.response = App(peerReq, peer.config, NoExc)]
    /\ UNCHANGED <<environ, environ0, ENVIRONMENT, JWT_SECRET, API_KEYS>>

\* The peer is started with the same ENVIRONMENT and any JWT_SECRET and API_KEYS.
InitReplica ==
    \E env \in Environs : \E peerEnv \in Environs :
        /\ peerEnv["ENVIRONMENT"] = env["ENVIRONMENT"]
        /\ Load(env)
        /\ peer = [config |-> Config(LoadEnvironment(peerEnv), LoadJwtSecret(peerEnv),
                                      LoadApiKeys(peerEnv)),
                   request |-> NoRequest, response |-> NoResponse]

\* Both processes are sent the same request.
RequestBoth == \E req \in Requests : ServeBoth(req, req)

NextReplica == RequestBoth \/ Complete

SpecReplica == InitReplica /\ [][NextReplica]_vars

\* The peer is a second run of the program in the same environment.
InitTwoRuns ==
    \E env \in Environs :
        /\ Load(env)
        /\ peer = [config |-> Config(LoadEnvironment(env), LoadJwtSecret(env),
                                      LoadApiKeys(env)),
                   request |-> NoRequest, response |-> NoResponse]

\* The two runs are sent requests that agree on method and path.
RequestPair ==
    /\ pc = "idle"
    /\ \E req \in Requests : \E c \in Clients :
          ServeBoth(req, [method |-> req.method, path |-> req.path,
                          query |-> c.query, headers |-> c.headers])

NextTwoRuns == RequestPair \/ Complete

SpecTwoRuns == InitTwoRuns /\ [][NextTwoRuns]_vars

----------------------------------------------------------------------------
(* Properties. *)

Answered == pc = "done"

HasHeader(name, value) ==
    name \in DOMAIN response.headers /\ response.headers[name] = value

\* The eight specific paths of main.py.
SpecificPaths ==
    { <<"/", "health">>, <<"/", "api", "/", "health">>, <<"/", "games">>,
      <<"/", "api", "/", "games">>, <<"/", "ml", "/", "game-detection">>,
      <<"/", "api", "/", "metrics", "/", "ping">>,
      <<"/", "api", "/", "metrics", "/", "jitter">>,
      <<"/", "api", "/", "metrics", "/", "system">> }

\* The paths FastAPI registers for its documentation pages.
DocsPaths ==
    { <<"/", "openapi.json">>, <<"/", "docs">>, <<"/", "docs", "/", "oauth2-redirect">>,
      <<"/", "redoc">> }

FallbackText == "{\"message\":\"Esta rota deve ser servida pelo frontend\"}"

HealthText(env) ==
    "{\"status\":\"healthy\",\"version\":\"1.0.0\",\"environment\":\"" \o env \o "\"}"

\* C1: every response, whatever the method, path and status, carries the six
\* headers of anti_redirect_middleware with their exact values.
C1_EveryResponseCarriesSixHeaders ==
    Answered =>
        /\ HasHeader("x-no-redirect", "1")
        /\ HasHeader("cache-control", "no-cache, no-store, must-revalidate")
        /\ HasHeader("pragma", "no-cache")
        /\ HasHeader("expires", "0")
        /\ HasHeader("x-content-type-options", "nosniff")
        /\ HasHeader("x-frame-options", "DENY")

\* The text each specific path answers with, given the environment name.
Fixture(path, env) ==
    CASE path = <<"/", "health">> -> HealthText(env)
      [] path = <<"/", "api", "/", "health">> -> HealthText(env)
      [] path \in {<<"/", "games">>, <<"/", "api", "/", "games">>} ->
            "[{\"id\":\"valorant\",\"name\":\"Valorant\",\"isOptimized\":false},"
            \o "{\"id\":\"csgo\",\"name\":\"Counter-Strike 2\",\"isOptimized\":true},"
            \o "{\"id\":\"fortnite\",\"name\":\"Fortnite\",\"isOptimized\":false}]"
      [] path = <<"/", "ml", "/", "game-detection">> ->
            "[{\"id\":\"valorant\",\"name\":\"Valorant\",\"isDetected\":true},"
            \o "{\"id\":\"csgo\",\"name\":\"Counter-Strike 2\",\"isDetected\":true}]"
      [] path = <<"/", "api", "/", "metrics", "/", "ping">> ->
            "{\"value\":35,\"unit\":\"ms\",\"timestamp\":\"2025-05-05T12:00:00Z\"}"
      [] path = <<"/", "api", "/", "metrics", "/", "jitter">> ->
            "{\"value\":5,\"unit\":\"ms\",\"timestamp\":\"2025-05-05T12:00:00Z\"}"
      [] path = <<"/", "api", "/", "metrics", "/", "system">> ->
            "{\"cpu\":45,\"memory\":60,\"gpu\":50,\"timestamp\":\"2025-05-05T12:00:00Z\"}"

\* C2: a GET of each of the eight specific paths is answered 200 with that
\* route's own fixture, never with the fallback message of the wildcard route.
C2_SpecificRoutesNotShadowed ==
    (Answered /\ request.method = "GET" /\ request.path \in SpecificPaths) =>
        /\ response.status = 200
        /\ response.body = Fixture(request.path, ENVIRONMENT)
        /\ response.body # FallbackText

C2_Witness ==
    /\ Answered
    /\ request.method = "GET"
    /\ request.path = <<"/", "api", "/", "metrics", "/", "system">>
    /\ response.status = 200

\* C3: a GET of any path that matches none of the specific routes (nor one of
\* the documentation pages) is answered 200 with the fallback message, never 404.
C3_UnmatchedPathGetsFallback ==
    (/\ Answered
     /\ request.method = "GET"
     /\ \A i \in DOMAIN Routes :
           Routes[i].path \in SpecificPaths \cup DocsPaths => ~PathMatches(Routes[i], request.path))
    => /\ response.status = 200
       /\ response.body = FallbackText

\* C4 as claimed: a handler raising an exception of any class is answered 500
\* with {"message": "Erro interno: <str(exc)>"}.
C4_AnyExceptionGives500 ==
    (Answered /\ fault # NoExc) =>
        /\ response.status = 500
        /\ response.body =
              "{\"message\":\"Erro interno: "
                  \o (IF fault.args = <<>> THEN "" ELSE fault.args[1]) \o "\"}"

\* C4 amended: a handler raising an exception that is not an HTTPException is
\* answered 500 with the JSON body {"message": "Erro interno: <str(exc)>"}; an
\* HTTPException is answered with its own status code and {"detail": ...}.
C4_PlainExceptionGives500 ==
    (Answered /\ fault # NoExc) =>
        IF fault.class = "HTTPException"
        THEN /\ response.status = fault.status_code
             /\ response.body = "{\"detail\":\"" \o fault.detail \o "\"}"
        ELSE /\ response.status = 500
             /\ HasHeader("content-type", "application/json")
             /\ response.body =
                   "{\"message\":\"Erro interno: "
                       \o (IF fault.args = <<>> THEN "" ELSE fault.args[1]) \o "\"}"

C4_Witness ==
    /\ Answered
    /\ fault.class = "Exception"
    /\ fault.args = <<"boom">>
    /\ response.status = 500

\* C5: GET /health and GET /api/health always answer {status, version,
\* environment: E} with E the value ENVIRONMENT had in the process environment
\* when the module was loaded ("development" if unset), whatever was requested
\* or changed in the environment since.
C5_EnvironmentFixedAtLoad ==
    /\ ENVIRONMENT = (IF environ0["ENVIRONMENT"] = None
                      THEN "development" ELSE environ0["ENVIRONMENT"])
    /\ (/\ Answered
        /\ request.method = "GET"
        /\ request.path \in {<<"/", "health">>, <<"/", "api", "/", "health">>}) =>
            /\ response.status = 200
            /\ response.body =
                  HealthText(IF environ0["ENVIRONMENT"] = None
                             THEN "development" ELSE environ0["ENVIRONMENT"])

C5_Witness ==
    /\ Answered
    /\ request.method = "GET"
    /\ request.path = <<"/", "health">>
    /\ environ0["ENVIRONMENT"] = None
    /\ environ["ENVIRONMENT"] = "production"
    /\ response.body = HealthText("development")

\* C6: every response to a request carrying an Origin header admits that origin
\* in Access-Control-Allow-Origin and allows credentials, the 500 of the
\* exception handler included; every such response other than the answer to a
\* preflight also exposes the three custom headers.
C6_EveryCrossOriginResponseHasCors ==
    (Answered /\ "origin" \in DOMAIN request.headers) =>
        /\ "access-control-allow-origin" \in DOMAIN response.headers
        /\ response.headers["access-control-allow-origin"] \in {"*", request.headers["origin"]}
        /\ HasHeader("access-control-allow-credentials", "true")
        /\ \/ /\ request.method = "OPTIONS"
              /\ "access-control-request-method" \in DOMAIN request.headers
           \/ HasHeader("access-control-expose-headers",
                        "X-Original-Location, X-Redirect-Blocked, X-Request-Path")

SameStatusAndBody ==
    /\ response.status = peer.response.status
    /\ response.body = peer.response.body

C8_Only200Or500 ==
    (Answered /\ \A i \in DOMAIN request.path : request.path[i] # LF) =>
        response.status \in {200, 500}

\* C8 amended: a request whose method and path a route accepts is answered 200,
\* or 500 when its handler raises an exception other than an HTTPException
\* (whose own status is then the answer); a CORS preflight is answered 200 or
\* 400; a path no route pattern matches 307 or 404; any other request 405.
C8_StatusByCase ==
    Answered =>
        IF /\ request.method = "OPTIONS"
           /\ "origin" \in DOMAIN request.headers
           /\ "access-control-request-method" \in DOMAIN request.headers
        THEN response.status \in {200, 400}
        ELSE IF \A i \in DOMAIN Routes : ~PathMatches(Routes[i], request.path)
        THEN response.status \in {307, 404}
        ELSE IF \E i \in DOMAIN Routes :
                    /\ PathMatches(Routes[i], request.path)
                    /\ request.method \in Routes[i].methods
        THEN response.status = (IF fault = NoExc THEN 200
                                ELSE IF fault.class = "HTTPException" THEN fault.status_code
                                ELSE 500)
        ELSE response.status = 405

C8_Witness ==
    /\ Answered
    /\ request.method = "POST"
    /\ request.path = <<"/", "health">>
    /\ response.status = 405

\* C9: two processes started with the same ENVIRONMENT and different JWT_SECRET
\* and API_KEYS answer every request with the same status, headers and body,
\* whether or not the request carries a key.
C9_SecretsDoNotInfluence ==
    (Answered /\ ENVIRONMENT = peer.config.ENVIRONMENT) => response = peer.response

C9_Witness ==
    /\ Answered
    /\ JWT_SECRET # peer.config.JWT_SECRET
    /\ API_KEYS # peer.config.API_KEYS
    /\ "x-api-key" \in DOMAIN request.headers
    /\ request.method = "GET"
    /\ response.status = 200

\* C10: no request is answered with a redirect: no 3xx status, no Location header.
C10_NeverRedirects ==
    Answered =>
        /\ response.status \notin 300..399
        /\ "location" \notin DOMAIN response.headers

==========================================================================
